---------------------------- MODULE Spec2Model ----------------------------
(***************************************************************************)
(* A model of the reversible rule engine of src/src/main.rs: the World,    *)
(* the four Rule variants and the Vec composite with their step and        *)
(* inverse, the permutation helpers, the round trip of test_inverse and    *)
(* the two worlds of main.                                                 *)
(*                                                                         *)
(* Rust vectors are sequences; a Rust index i is position i + 1, and the   *)
(* entries of a permutation keep their Rust values 0 .. n-1.               *)
(***************************************************************************)
EXTENDS Integers, Sequences, FiniteSets, TLC

VARIABLES
    world,      \* the world a rule steps (main's and the test's `world`)
    orig,       \* the world as constructed, kept for comparison
    rule,       \* the rule under test, or main's `rules`
    inv,        \* the rule returned by rule.inverse(), once it was called
    pc,         \* the position in the procedure being run
    revworld,   \* main's mirror world: a clone of the world, stepped apart
    xs,         \* the vector of test_invert_permutation
    permutation, \* its permutation
    constructed, \* what main prints of the world it constructed
    trail       \* the states the mirror world went through, by tick

vars == <<world, orig, rule, inv, pc, revworld, xs, permutation, constructed, trail>>

(***************************************************************************)
(* Bounds of the model.  The slots of main hold 20, 200 and 200 cells and  *)
(* a seed is a u64; the model keeps the slots short and the seed narrow.   *)
(***************************************************************************)
BatteryLen == 2
HotLen == 3
ColdLen == 2
SeedBits == 2
MaxTick == 1

RECURSIVE Pow2(_)
Pow2(k) == IF k = 0 THEN 1 ELSE 2 * Pow2(k - 1)

\* The number of values of the seed's unsigned type (2^64 in the source).
SeedModulus == Pow2(SeedBits)

Seeds == 0 .. (SeedModulus - 1)
Ticks == (0 - MaxTick) .. MaxTick

\* The element of a Rust vector at index i.
At(s, i) == s[i + 1]

BoolSeqs(n) == [1 .. n -> BOOLEAN]

World(t, battery, hot_bath, cold_bath) ==
    [t |-> t, battery |-> battery, hot_bath |-> hot_bath, cold_bath |-> cold_bath]

\* The worlds whose slots have the lengths of the model, at tick t.
WorldsAt(t) ==
    { World(t, b, h, c) : b \in BoolSeqs(BatteryLen), h \in BoolSeqs(HotLen),
                          c \in BoolSeqs(ColdLen) }

sumbools(cells) == Cardinality({ i \in DOMAIN cells : cells[i] })

(***************************************************************************)
(* The permutation engine.                                                 *)
(***************************************************************************)

\* The draws of the seeded generator.  rand's StdRng is outside the
\* repository; the model keeps what the program relies on: the stream is a
\* function of the seed alone.
RngSeed(seed) == (seed * 29 + 5) % 65521
RngNext(s) == (s * 13 + 11) % 65521

SwapAt(p, i, j) == [p EXCEPT ![i + 1] = At(p, j), ![j + 1] = At(p, i)]

\* SliceRandom::shuffle: for i from n-1 down to 1, swap i with a drawn
\* index of 0 ..= i.
RECURSIVE Shuffle(_, _, _)
Shuffle(p, i, s) ==
    IF i < 1 THEN p
    ELSE LET s2 == RngNext(s)
         IN  Shuffle(SwapAt(p, i, s2 % (i + 1)), i - 1, s2)

generate_random_permutation(n, seed) ==
    Shuffle([i \in 1 .. n |-> i - 1], n - 1, RngSeed(seed))

\* Mutant: the result is collected over 1 .. len - 1, one cell short.
PermuteDropsLast(perm, buf) ==
    [i \in 1 .. (Len(buf) - 1) |-> At(buf, perm[i])]

\* Mutant: the loop reads the buffer it writes, with no snapshot.
RECURSIVE PermuteInPlaceFrom(_, _, _)
PermuteInPlaceFrom(perm, buf, i) ==
    IF i >= Len(buf) THEN buf
    ELSE PermuteInPlaceFrom(perm, [buf EXCEPT ![i + 1] = At(buf, At(perm, i))], i + 1)

PermuteInPlace(perm, buf) == PermuteInPlaceFrom(perm, buf, 0)

\* for i in 0..buf.len() { buf[i] = orig[permutation[i]] }, orig a snapshot.
permute(perm, buf) ==
    LET snapshot == buf
    IN  [i \in 1 .. Len(buf) |-> At(snapshot, perm[i])]

\* for i in 0..permutation.len() { acc[permutation[i]] = i } from index i on.
RECURSIVE Scatter(_, _, _)
Scatter(perm, acc, i) ==
    IF i >= Len(perm) THEN acc
    ELSE Scatter(perm, [acc EXCEPT ![At(perm, i) + 1] = i], i + 1)

\* Mutant: inverse[i] = permutation[i].
InvertPermutationCopy(perm) == [i \in 1 .. Len(perm) |-> perm[i]]

invert_permutation(perm) ==
    Scatter(perm, [i \in 1 .. Len(perm) |-> 0], 0)

(***************************************************************************)
(* The rules.                                                              *)
(***************************************************************************)
ProbeAndSwap == [kind |-> "ProbeAndSwap"]
CondSwap == [kind |-> "CondSwap"]
Permute(battery, hot_bath, cold_bath) ==
    [kind |-> "Permute", battery |-> battery, hot_bath |-> hot_bath,
     cold_bath |-> cold_bath]
WeirdPermute(seed, inverted) ==
    [kind |-> "WeirdPermute", seed |-> seed, inverted |-> inverted]
Vec(rules) == [kind |-> "Vec", rules |-> rules]

\* Mutant: the exchange without the probe of hot_bath[0].
ProbeAndSwapStepUngated(w) ==
    [w EXCEPT !.battery = [@ EXCEPT ![2] = At(w.hot_bath, 1)],
              !.hot_bath = [@ EXCEPT ![2] = At(w.battery, 1)]]

ProbeAndSwapStep(w) ==
    IF At(w.hot_bath, 0)
    THEN [w EXCEPT !.battery = [@ EXCEPT ![2] = At(w.hot_bath, 1)],
                   !.hot_bath = [@ EXCEPT ![2] = At(w.battery, 1)]]
    ELSE w

PermuteStep(r, w) ==
    [w EXCEPT !.battery = permute(r.battery, @),
              !.hot_bath = permute(r.hot_bath, @),
              !.cold_bath = permute(r.cold_bath, @)]

\* Mutant: the clone returned without the three loops.
PermuteInverseCloneOnly(r) == Permute(r.battery, r.hot_bath, r.cold_bath)

PermuteInverse(r) ==
    Permute(Scatter(r.battery, r.battery, 0),
            Scatter(r.hot_bath, r.hot_bath, 0),
            Scatter(r.cold_bath, r.cold_bath, 0))

\* seed.wrapping_add_signed(t): the sum modulo the width of the seed.
WrappingAddSigned(seed, t) == (seed + t) % SeedModulus

\* Mutant: the inverted rule reads the world's own tick.
WeirdTickUnshifted(r, t) == t

\* The tick WeirdPermute::step derives its permutations from.
WeirdTick(r, t) == t - (IF r.inverted THEN 1 ELSE 0)

\* Mutant: the inverted rule applies the generated permutation as it is.
WeirdPermNotInverted(r, t, n) ==
    generate_random_permutation(n, WrappingAddSigned(r.seed, WeirdTick(r, t)))

\* The permutation WeirdPermute::step applies to a slot of length n when the
\* world's tick is t.
WeirdPerm(r, t, n) ==
    LET generated == generate_random_permutation(n, WrappingAddSigned(r.seed, WeirdTick(r, t)))
    IN  IF r.inverted THEN invert_permutation(generated) ELSE generated

\* Mutant: the tick the permutations are derived from is written back to
\* the world.
WeirdPermuteStepWritesTick(r, w) ==
    [w EXCEPT !.t = WeirdTick(r, w.t),
              !.battery = permute(WeirdPerm(r, w.t, Len(w.battery)), @),
              !.hot_bath = permute(WeirdPerm(r, w.t, Len(w.hot_bath)), @),
              !.cold_bath = permute(WeirdPerm(r, w.t, Len(w.cold_bath)), @)]

WeirdPermuteStep(r, w) ==
    [w EXCEPT !.battery = permute(WeirdPerm(r, w.t, Len(w.battery)), @),
              !.hot_bath = permute(WeirdPerm(r, w.t, Len(w.hot_bath)), @),
              !.cold_bath = permute(WeirdPerm(r, w.t, Len(w.cold_bath)), @)]

\* Mutant: the flag is not flipped.
WeirdPermuteInverseSameFlag(r) == WeirdPermute(r.seed, r.inverted)

\* Mutant: the inverse is built with inverted: true whatever the flag was.
WeirdPermuteInverseAlwaysInverted(r) == WeirdPermute(r.seed, TRUE)

WeirdPermuteInverse(r) == WeirdPermute(r.seed, ~r.inverted)

\* Mutant: only the first pattern triggers.
CondSwapTriggersFirstOnly(w) ==
    <<At(w.hot_bath, 0), At(w.hot_bath, 1), At(w.cold_bath, 0), At(w.battery, 0)>>
        = <<TRUE, TRUE, FALSE, FALSE>>

CondSwapTriggers(w) ==
    LET readout == <<At(w.hot_bath, 0), At(w.hot_bath, 1), At(w.cold_bath, 0),
                     At(w.battery, 0)>>
    IN  \/ readout = <<TRUE, TRUE, FALSE, FALSE>>
        \/ readout = <<FALSE, FALSE, TRUE, TRUE>>

\* Mutant: the two cells of hot_bath are assigned, not exchanged.
CondSwapStepOverwrite(w) ==
    IF CondSwapTriggers(w)
    THEN [w EXCEPT !.hot_bath = [@ EXCEPT ![1] = At(w.cold_bath, 0),
                                          ![2] = At(w.battery, 0)]]
    ELSE w

CondSwapStep(w) ==
    IF CondSwapTriggers(w)
    THEN [w EXCEPT !.hot_bath = [@ EXCEPT ![1] = At(w.cold_bath, 0),
                                          ![2] = At(w.battery, 0)],
                   !.cold_bath = [@ EXCEPT ![1] = At(w.hot_bath, 0)],
                   !.battery = [@ EXCEPT ![1] = At(w.hot_bath, 1)]]
    ELSE w

RECURSIVE Step(_, _)
RECURSIVE VecStep(_, _)

\* Mutant: the last element steps first.
RECURSIVE VecStepLastFirst(_, _)
VecStepLastFirst(rules, w) ==
    IF rules = <<>> THEN w
    ELSE Step(Head(rules), VecStepLastFirst(Tail(rules), w))

\* for rule in self { rule.step(world) }
VecStep(rules, w) ==
    IF rules = <<>> THEN w
    ELSE VecStep(Tail(rules), Step(Head(rules), w))

\* rule.step(world), dispatched on the variant.
Step(r, w) ==
    CASE r.kind = "ProbeAndSwap" -> ProbeAndSwapStep(w)
      [] r.kind = "Permute" -> PermuteStep(r, w)
      [] r.kind = "WeirdPermute" -> WeirdPermuteStep(r, w)
      [] r.kind = "CondSwap" -> CondSwapStep(w)
      [] r.kind = "Vec" -> VecStep(r.rules, w)

RECURSIVE Inverse(_)
RECURSIVE VecInverseFrom(_, _, _)

\* for rule in self.iter().rev() { inverse.push(rule.inverse()) }, with i
\* elements still to visit.
VecInverseFrom(rules, i, acc) ==
    IF i = 0 THEN acc
    ELSE VecInverseFrom(rules, i - 1, Append(acc, Inverse(rules[i])))

\* Mutant: the inverses pushed in the order of the original.
VecInverseUnreversed(rules) == Vec([i \in 1 .. Len(rules) |-> Inverse(rules[i])])

VecInverse(rules) == Vec(VecInverseFrom(rules, Len(rules), <<>>))

\* rule.inverse(), dispatched on the variant.
Inverse(r) ==
    CASE r.kind = "ProbeAndSwap" -> ProbeAndSwap
      [] r.kind = "Permute" -> PermuteInverse(r)
      [] r.kind = "WeirdPermute" -> WeirdPermuteInverse(r)
      [] r.kind = "CondSwap" -> CondSwap
      [] r.kind = "Vec" -> VecInverse(r.rules)

(***************************************************************************)
(* Indexing past the end of a vector panics.  The predicates below say     *)
(* when a step panics, from the indices its code reads and writes.         *)
(***************************************************************************)
\* world.hot_bath[0], then, when it is true, battery[1] and hot_bath[1].
ProbeAndSwapPanics(w) ==
    \/ Len(w.hot_bath) < 1
    \/ /\ At(w.hot_bath, 0)
       /\ (Len(w.battery) < 2 \/ Len(w.hot_bath) < 2)

\* (h[0], h[1], c[0], b[0]) is built before anything is compared or swapped.
CondSwapPanics(w) ==
    \/ Len(w.hot_bath) < 2
    \/ Len(w.cold_bath) < 1
    \/ Len(w.battery) < 1

\* for i in 0..buf.len(): permutation[i] and orig[permutation[i]] are indexed.
PermutePanicsOn(perm, buf) ==
    \E i \in 0 .. (Len(buf) - 1) : i >= Len(perm) \/ At(perm, i) >= Len(buf)

\* The three calls of permute, in the order of Permute::step.
PermutePanics(r, w) ==
    \/ PermutePanicsOn(r.battery, w.battery)
    \/ PermutePanicsOn(r.hot_bath, w.hot_bath)
    \/ PermutePanicsOn(r.cold_bath, w.cold_bath)

RECURSIVE StepPanics(_, _)
RECURSIVE VecStepPanics(_, _)

\* for rule in self { rule.step(world) }: the first panic ends the loop.
VecStepPanics(rules, w) ==
    /\ rules # <<>>
    /\ \/ StepPanics(Head(rules), w)
       \/ VecStepPanics(Tail(rules), Step(Head(rules), w))

\* rule.step(world) panics.  WeirdPermute generates its permutations with the
\* length of the slot it permutes, and indexes nothing past the end.
StepPanics(r, w) ==
    CASE r.kind = "ProbeAndSwap" -> ProbeAndSwapPanics(w)
      [] r.kind = "Permute" -> PermutePanics(r, w)
      [] r.kind = "WeirdPermute" -> FALSE
      [] r.kind = "CondSwap" -> CondSwapPanics(w)
      [] r.kind = "Vec" -> VecStepPanics(r.rules, w)

(***************************************************************************)
(* The rules and worlds the procedures below are run on.                   *)
(***************************************************************************)
RECURSIVE Factorial(_)
Factorial(n) == IF n <= 1 THEN 1 ELSE n * Factorial(n - 1)

RemoveAt(s, i) == [j \in 1 .. (Len(s) - 1) |-> IF j < i THEN s[j] ELSE s[j + 1]]

\* The k-th arrangement of items, in lexicographic order (k modulo their number).
RECURSIVE NthArrangement(_, _)
NthArrangement(items, k) ==
    IF items = <<>> THEN <<>>
    ELSE LET f == Factorial(Len(items) - 1)
             i == ((k \div f) % Len(items)) + 1
         IN  <<items[i]>> \o NthArrangement(RemoveAt(items, i), k % f)

NthPermutation(n, k) == NthArrangement([i \in 1 .. n |-> i - 1], k)

\* The bijections of 0 .. n-1, as index sequences.
Bijections(n) == { NthPermutation(n, k) : k \in 0 .. (Factorial(n) - 1) }

MaxLen ==
    IF BatteryLen >= HotLen /\ BatteryLen >= ColdLen THEN BatteryLen
    ELSE IF HotLen >= ColdLen THEN HotLen ELSE ColdLen

\* FixedPermute rules: every bijection of every slot occurs in one of them.
PermuteRules ==
    { Permute(NthPermutation(BatteryLen, k), NthPermutation(HotLen, k),
              NthPermutation(ColdLen, k)) : k \in 0 .. (Factorial(MaxLen) - 1) }

WeirdRules == { WeirdPermute(s, b) : s \in Seeds, b \in BOOLEAN }

AtomRules == { ProbeAndSwap, CondSwap } \cup WeirdRules \cup PermuteRules

\* The elements composites are built from: three variants and a composite.
VecLeaves ==
    { CondSwap, WeirdPermute(1, FALSE),
      Vec(<<ProbeAndSwap,
            Vec(<<Permute(NthPermutation(BatteryLen, 1), NthPermutation(HotLen, 3),
                          NthPermutation(ColdLen, 1))>>)>>) }

MaxTestVecLen == 2

SeqsUpTo(S, n) == UNION { [1 .. k -> S] : k \in 0 .. n }

TestVecRules == { Vec(rs) : rs \in SeqsUpTo(VecLeaves, MaxTestVecLen) }

\* The rules of the round trip of test_inverse: the forward orientation.
RoundTripRules ==
    { r \in AtomRules : r.kind = "WeirdPermute" => ~r.inverted } \cup TestVecRules

NoRule == [kind |-> "None"]
NoWorld == World(0, <<>>, <<>>, <<>>)
NoLine == [true_count |-> 0, lens |-> <<>>]

(***************************************************************************)
(* test_inverse, for any rule and world: step, move the tick, step the     *)
(* inverse, move the tick back.  The test moves the tick up; main moves    *)
(* the tick of the world it steps with an inverse down.                    *)
(***************************************************************************)
Init ==
    /\ world \in UNION { WorldsAt(t) : t \in Ticks }
    /\ orig = world
    /\ rule \in AtomRules
    /\ inv = NoRule
    /\ pc = "start"
    /\ revworld = NoWorld
    /\ xs = <<>>
    /\ permutation = <<>>
    /\ constructed = NoLine
    /\ trail = <<>>

\* permute.step(&mut world)
TestStep ==
    /\ pc = "start"
    /\ world' = Step(rule, world)
    /\ pc' = "stepped"
    /\ UNCHANGED <<orig, rule, inv, revworld, xs, permutation, constructed, trail>>

\* a second rule.step(&mut world) in place of the inverse's
TestStepAgain ==
    /\ pc = "stepped"
    /\ world' = Step(rule, world)
    /\ pc' = "twice"
    /\ UNCHANGED <<orig, rule, inv, revworld, xs, permutation, constructed, trail>>

\* world.t += 1
TestInc ==
    /\ pc = "stepped"
    /\ world' = [world EXCEPT !.t = @ + 1]
    /\ pc' = "inc"
    /\ UNCHANGED <<orig, rule, inv, revworld, xs, permutation, constructed, trail>>

\* world.t -= 1, as main does after a step
TestDec ==
    /\ pc = "stepped"
    /\ world' = [world EXCEPT !.t = @ - 1]
    /\ pc' = "dec"
    /\ UNCHANGED <<orig, rule, inv, revworld, xs, permutation, constructed, trail>>

\* permute.inverse().step(&mut world)
TestInverseStep ==
    /\ pc \in {"inc", "dec"}
    /\ inv' = Inverse(rule)
    /\ world' = Step(Inverse(rule), world)
    /\ pc' = IF pc = "inc" THEN "inc_inv" ELSE "dec_inv"
    /\ UNCHANGED <<orig, rule, revworld, xs, permutation, constructed, trail>>

\* the tick moved back: world.t -= 1 after an increment, += 1 after a decrement
TestRestoreTick ==
    /\ pc \in {"inc_inv", "dec_inv"}
    /\ world' = [world EXCEPT !.t = IF pc = "inc_inv" THEN @ - 1 ELSE @ + 1]
    /\ pc' = IF pc = "inc_inv" THEN "done_inc" ELSE "done_dec"
    /\ UNCHANGED <<orig, rule, inv, revworld, xs, permutation, constructed, trail>>

Next ==
    \/ TestStep
    \/ TestStepAgain
    \/ TestInc
    \/ TestDec
    \/ TestInverseStep
    \/ TestRestoreTick

Spec == Init /\ [][Next]_vars

\* test_inverse as written (the tick moved up), on the rules of RoundTripRules.
InitRoundTrip ==
    /\ world \in UNION { WorldsAt(t) : t \in Ticks }
    /\ orig = world
    /\ rule \in RoundTripRules
    /\ inv = NoRule
    /\ pc = "start"
    /\ revworld = NoWorld
    /\ xs = <<>>
    /\ permutation = <<>>
    /\ constructed = NoLine
    /\ trail = <<>>

NextRoundTrip ==
    \/ TestStep
    \/ TestInc
    \/ TestInverseStep
    \/ TestRestoreTick

SpecRoundTrip == InitRoundTrip /\ [][NextRoundTrip]_vars

(***************************************************************************)
(* test_invert_permutation, for any vector and any permutation of its      *)
(* length: permute, then permute with the inverted permutation.            *)
(***************************************************************************)
MaxPermLen == 3

InitPerm ==
    /\ \E n \in 1 .. MaxPermLen :
          /\ xs \in [1 .. n -> 0 .. (n - 1)]
          /\ \/ \E s \in Seeds : permutation = generate_random_permutation(n, s)
             \/ permutation \in Bijections(n)
    /\ orig = xs
    /\ pc = "start"
    /\ world = NoWorld
    /\ revworld = NoWorld
    /\ rule = NoRule
    /\ inv = NoRule
    /\ constructed = NoLine
    /\ trail = <<>>

\* permute(&permutation, &mut xs)
PermApply ==
    /\ pc = "start"
    /\ xs' = permute(permutation, xs)
    /\ pc' = "permuted"
    /\ UNCHANGED <<world, orig, rule, inv, revworld, permutation, constructed, trail>>

\* permute(&invert_permutation(&permutation), &mut xs)
PermApplyInverted ==
    /\ pc = "permuted"
    /\ xs' = permute(invert_permutation(permutation), xs)
    /\ pc' = "restored"
    /\ UNCHANGED <<world, orig, rule, inv, revworld, permutation, constructed, trail>>

NextPerm ==
    \/ PermApply
    \/ PermApplyInverted

SpecPerm == InitPerm /\ [][NextPerm]_vars

(***************************************************************************)
(* A composite and its inverse: the inverse built by inverse() steps the   *)
(* world, and the composite of the elements' inverses written out in       *)
(* reverse order steps a clone of it.                                      *)
(***************************************************************************)
MaxVecLen == 4

\* The elements of the compared composites: a time-varying permutation and
\* a composite of the three other variants.
VecPairLeaves ==
    { WeirdPermute(1, FALSE),
      Vec(<<CondSwap,
            Permute(NthPermutation(BatteryLen, 1), NthPermutation(HotLen, 3),
                    NthPermutation(ColdLen, 1)),
            ProbeAndSwap>>) }

VecRules == { Vec(rs) : rs \in SeqsUpTo(VecPairLeaves, MaxVecLen) \ {<<>>} }

\* [Rk.inverse(), ..., R1.inverse()] for rules = [R1, ..., Rk]
ReversedInverses(rules) ==
    [i \in 1 .. Len(rules) |-> Inverse(rules[Len(rules) + 1 - i])]

InitVec ==
    /\ world \in WorldsAt(0)
    /\ orig = world
    /\ revworld = world
    /\ rule \in VecRules
    /\ inv = NoRule
    /\ pc = "start"
    /\ xs = <<>>
    /\ permutation = <<>>
    /\ constructed = NoLine
    /\ trail = <<>>

\* rules.inverse().step(&mut world) beside the written-out composite's step
\* on the clone
VecInverseSteps ==
    /\ pc = "start"
    /\ inv' = Inverse(rule)
    /\ world' = Step(Inverse(rule), world)
    /\ revworld' = Step(Vec(ReversedInverses(rule.rules)), revworld)
    /\ pc' = "inverse_stepped"
    /\ UNCHANGED <<orig, rule, xs, permutation, constructed, trail>>

NextVec == VecInverseSteps

SpecVec == InitVec /\ [][NextVec]_vars

(***************************************************************************)
(* A world stepped by any rules in any order, its tick moved up and down   *)
(* in between.                                                             *)
(***************************************************************************)
TrueCount(w) == sumbools(w.battery) + sumbools(w.hot_bath) + sumbools(w.cold_bath)

\* What Display shows of a world besides the tick: the cells that are true
\* (summed over the slots) and the slots' lengths.
Line(w) ==
    [true_count |-> TrueCount(w),
     lens |-> <<Len(w.battery), Len(w.hot_bath), Len(w.cold_bath)>>]

\* The composites main builds, for every seed.
MainRules == { Vec(<<CondSwap, WeirdPermute(seed, FALSE)>>) : seed \in Seeds }

\* Every variant in both orientations, composites and their inverses.
FreeRules ==
    AtomRules \cup VecLeaves \cup MainRules \cup { Inverse(r) : r \in VecLeaves \cup MainRules }

InitFree ==
    /\ world \in WorldsAt(0)
    /\ constructed = Line(world)
    /\ pc = "constructed"
    /\ orig = NoWorld
    /\ revworld = NoWorld
    /\ rule = NoRule
    /\ inv = NoRule
    /\ xs = <<>>
    /\ permutation = <<>>
    /\ trail = <<>>

\* r.step(&mut world) for any rule r
FreeStep ==
    /\ \E r \in FreeRules : world' = Step(r, world)
    /\ pc' = "stepped"
    /\ UNCHANGED <<orig, rule, inv, revworld, xs, permutation, constructed, trail>>

\* world.t += 1
FreeInc ==
    /\ world.t < MaxTick
    /\ world' = [world EXCEPT !.t = @ + 1]
    /\ pc' = "ticked"
    /\ UNCHANGED <<orig, rule, inv, revworld, xs, permutation, constructed, trail>>

\* world.t -= 1
FreeDec ==
    /\ world.t > 0 - MaxTick
    /\ world' = [world EXCEPT !.t = @ - 1]
    /\ pc' = "ticked"
    /\ UNCHANGED <<orig, rule, inv, revworld, xs, permutation, constructed, trail>>

NextFree ==
    \/ FreeStep
    \/ FreeInc
    \/ FreeDec

SpecFree == InitFree /\ [][NextFree]_vars

(***************************************************************************)
(* main: the world driven forward and the mirror world driven with the     *)
(* inverse, tick by tick, from any world at tick 0 and any seed; then the  *)
(* second loop of main (lines 288-296), which drives each world back.      *)
(***************************************************************************)
MaxSteps == 3

InitMain ==
    /\ world \in WorldsAt(0)
    /\ orig = world
    /\ revworld = world
    /\ rule \in MainRules
    /\ inv = Inverse(rule)
    /\ pc = "loop"
    /\ trail = <<world>>
    /\ constructed = Line(world)
    /\ xs = <<>>
    /\ permutation = <<>>

\* One iteration of the loop: rules.step(&mut world); world.t += 1;
\* inv_rules.step(&mut revworld); revworld.t -= 1.
MainIteration ==
    /\ pc = "loop"
    /\ world.t < MaxSteps
    /\ world' = [Step(rule, world) EXCEPT !.t = @ + 1]
    /\ revworld' = [Step(inv, revworld) EXCEPT !.t = @ - 1]
    /\ trail' = Append(trail, revworld')
    /\ UNCHANGED <<orig, rule, inv, pc, xs, permutation, constructed>>

\* The loop ends.
MainLoopEnd ==
    /\ pc = "loop"
    /\ pc' = "back"
    /\ UNCHANGED <<world, orig, rule, inv, revworld, xs, permutation, constructed, trail>>

\* One iteration of the second loop: inv_rules.step(&mut world);
\* world.t -= 1; rules.step(&mut revworld); revworld.t += 1.
MainBackIteration ==
    /\ pc = "back"
    /\ world.t > 0
    /\ world' = [Step(inv, world) EXCEPT !.t = @ - 1]
    /\ revworld' = [Step(rule, revworld) EXCEPT !.t = @ + 1]
    /\ UNCHANGED <<orig, rule, inv, pc, xs, permutation, constructed, trail>>

NextMain ==
    \/ MainIteration
    \/ MainLoopEnd
    \/ MainBackIteration

SpecMain == InitMain /\ [][NextMain]_vars

(***************************************************************************)
(* Worlds and rules as the struct literals build them: no constructor      *)
(* checks a length.  A rule is then stepped once, and the step either      *)
(* completes or panics.                                                    *)
(***************************************************************************)
\* Worlds whose slots have any length up to the lengths used elsewhere,
\* zero included.
ShortWorlds ==
    { World(0, b, h, c) : b \in SeqsUpTo(BOOLEAN, BatteryLen),
                          h \in SeqsUpTo(BOOLEAN, HotLen),
                          c \in SeqsUpTo(BOOLEAN, ColdLen) }

\* Rules that index fixed positions, alone and in main's composite, and a
\* rule that indexes none.
ReadingRules ==
    { ProbeAndSwap, CondSwap, WeirdPermute(1, FALSE),
      Vec(<<CondSwap, WeirdPermute(1, FALSE)>>) }

\* Index sequences one shorter or one longer than a slot of length n, their
\* entries all within 0 .. n-1.
MismatchedSeqs(n) ==
    { SubSeq(p, 1, n - 1) : p \in Bijections(n) }
        \cup { Append(p, e) : p \in Bijections(n), e \in 0 .. (n - 1) }

\* Permute rules one of whose sequences does not have the length of its slot.
MismatchedPermutes ==
    { Permute(p, NthPermutation(HotLen, 1), NthPermutation(ColdLen, 1)) :
        p \in MismatchedSeqs(BatteryLen) }
    \cup { Permute(NthPermutation(BatteryLen, 1), p, NthPermutation(ColdLen, 1)) :
        p \in MismatchedSeqs(HotLen) }
    \cup { Permute(NthPermutation(BatteryLen, 1), NthPermutation(HotLen, 1), p) :
        p \in MismatchedSeqs(ColdLen) }

InitUnchecked ==
    /\ \/ world \in ShortWorlds /\ rule \in ReadingRules
       \/ world \in WorldsAt(0) /\ rule \in MismatchedPermutes
    /\ orig = world
    /\ pc = "constructed"
    /\ constructed = Line(world)
    /\ inv = NoRule
    /\ revworld = NoWorld
    /\ xs = <<>>
    /\ permutation = <<>>
    /\ trail = <<>>

\* rule.step(&mut world) runs to its end.
UncheckedStep ==
    /\ pc = "constructed"
    /\ ~StepPanics(rule, world)
    /\ world' = Step(rule, world)
    /\ pc' = "stepped"
    /\ UNCHANGED <<orig, rule, inv, revworld, xs, permutation, constructed, trail>>

\* rule.step(&mut world) panics on an index past the end; the run ends there
\* and the world is never read again.
UncheckedStepPanics ==
    /\ pc = "constructed"
    /\ StepPanics(rule, world) = TRUE
    /\ pc' = "panicked"
    /\ UNCHANGED <<world, orig, rule, inv, revworld, xs, permutation, constructed, trail>>

NextUnchecked ==
    \/ UncheckedStep
    \/ UncheckedStepPanics

SpecUnchecked == InitUnchecked /\ [][NextUnchecked]_vars

(***************************************************************************)
(* One step of a composite, the empty one included, at any tick.           *)
(***************************************************************************)
InitOrder ==
    /\ world \in UNION { WorldsAt(t) : t \in Ticks }
    /\ orig = world
    /\ rule \in TestVecRules
    /\ inv = NoRule
    /\ pc = "start"
    /\ revworld = NoWorld
    /\ xs = <<>>
    /\ permutation = <<>>
    /\ constructed = NoLine
    /\ trail = <<>>

NextOrder == TestStep

SpecOrder == InitOrder /\ [][NextOrder]_vars

(***************************************************************************)
(* permute with any index sequence of the vector's length, a bijection or  *)
(* not: on a vector alone, and on the slots of a world through Permute.    *)
(***************************************************************************)
RECURSIVE Power(_, _)
Power(n, e) == IF e = 0 THEN 1 ELSE n * Power(n, e - 1)

\* The k-th sequence of n indices below n: the digits of k in base n.
NthIndexSeq(n, k) == [i \in 1 .. n |-> (k \div Power(n, i - 1)) % n]

IndexSeqs(n) == { NthIndexSeq(n, k) : k \in 0 .. (Power(n, n) - 1) }

\* Permute rules whose sequences run through the index sequences of their
\* slots together.
IndexPermuteRules ==
    { Permute(NthIndexSeq(BatteryLen, k), NthIndexSeq(HotLen, k), NthIndexSeq(ColdLen, k)) :
        k \in 0 .. (Power(MaxLen, MaxLen) - 1) }

InitSnapshot ==
    /\ \/ /\ \E n \in 1 .. MaxPermLen :
                /\ xs \in [1 .. n -> 0 .. (n - 1)]
                /\ permutation \in IndexSeqs(n)
          /\ orig = xs
          /\ world = NoWorld
          /\ rule = NoRule
       \/ /\ world \in WorldsAt(0)
          /\ orig = world
          /\ rule \in IndexPermuteRules
          /\ xs = <<>>
          /\ permutation = <<>>
    /\ pc = "start"
    /\ revworld = NoWorld
    /\ inv = NoRule
    /\ constructed = NoLine
    /\ trail = <<>>

\* permute(&permutation, &mut xs)
SnapshotPermute ==
    /\ pc = "start"
    /\ rule = NoRule
    /\ xs' = permute(permutation, xs)
    /\ pc' = "permuted"
    /\ UNCHANGED <<world, orig, rule, inv, revworld, permutation, constructed, trail>>

\* rule.step(&mut world), rule a Permute
SnapshotStep ==
    /\ pc = "start"
    /\ rule # NoRule
    /\ world' = Step(rule, world)
    /\ pc' = "stepped"
    /\ UNCHANGED <<orig, rule, inv, revworld, xs, permutation, constructed, trail>>

NextSnapshot ==
    \/ SnapshotPermute
    \/ SnapshotStep

SpecSnapshot == InitSnapshot /\ [][NextSnapshot]_vars

(***************************************************************************)
(* One step of WeirdPermute at any tick of the tick's type.  World::t is   *)
(* an i64 and the seed a u64: the tick is given the width of the seed, so  *)
(* that both ends of its range are stepped at.  At the least tick the      *)
(* inverted rule's world.t - 1 leaves the type: a build with overflow      *)
(* checks panics there, a build without them wraps.                        *)
(***************************************************************************)
I64Min == 0 - (SeedModulus \div 2)
I64Max == (SeedModulus \div 2) - 1

\* world.t - if self.inverted { 1 } else { 0 } overflows.
SubOverflows(r, t) == r.inverted /\ t = I64Min

\* The step when the subtraction wraps to i64::MAX, which is what it gives at
\* the tick above i64::MAX.
WeirdPermuteStepWrapped(r, w) ==
    [WeirdPermuteStep(r, [w EXCEPT !.t = I64Max + 1]) EXCEPT !.t = w.t]

InitSeed ==
    /\ world \in UNION { WorldsAt(t) : t \in I64Min .. I64Max }
    /\ orig = world
    /\ rule \in WeirdRules
    /\ inv = NoRule
    /\ pc = "start"
    /\ revworld = NoWorld
    /\ xs = <<>>
    /\ permutation = <<>>
    /\ constructed = NoLine
    /\ trail = <<>>

\* rule.step(&mut world), the subtraction within i64
SeedStep ==
    /\ pc = "start"
    /\ ~SubOverflows(rule, world.t)
    /\ world' = Step(rule, world)
    /\ pc' = "stepped"
    /\ UNCHANGED <<orig, rule, inv, revworld, xs, permutation, constructed, trail>>

\* rule.step(&mut world) built without overflow checks: the subtraction wraps
SeedStepWrapped ==
    /\ pc = "start"
    /\ SubOverflows(rule, world.t)
    /\ world' = WeirdPermuteStepWrapped(rule, world)
    /\ pc' = "stepped"
    /\ UNCHANGED <<orig, rule, inv, revworld, xs, permutation, constructed, trail>>

\* rule.step(&mut world) built with overflow checks: the subtraction panics
\* before any seed is derived
SeedStepOverflowPanics ==
    /\ pc = "start"
    /\ SubOverflows(rule, world.t)
    /\ pc' = "panicked"
    /\ UNCHANGED <<world, orig, rule, inv, revworld, xs, permutation, constructed, trail>>

NextSeed ==
    \/ SeedStep
    \/ SeedStepWrapped
    \/ SeedStepOverflowPanics

SpecSeed == InitSeed /\ [][NextSeed]_vars

(***************************************************************************)
(* rule.inverse().inverse() and rule, each stepping its own copy of a      *)
(* world.                                                                  *)
(***************************************************************************)
InitDouble ==
    /\ world \in UNION { WorldsAt(t) : t \in Ticks }
    /\ orig = world
    /\ revworld = world
    /\ rule \in FreeRules
    /\ inv = NoRule
    /\ pc = "start"
    /\ xs = <<>>
    /\ permutation = <<>>
    /\ constructed = NoLine
    /\ trail = <<>>

\* rule.inverse().inverse().step(&mut world); rule.step(&mut revworld)
DoubleInverseSteps ==
    /\ pc = "start"
    /\ inv' = Inverse(Inverse(rule))
    /\ world' = Step(inv', world)
    /\ revworld' = Step(rule, revworld)
    /\ pc' = "double_stepped"
    /\ UNCHANGED <<orig, rule, xs, permutation, constructed, trail>>

NextDouble == DoubleInverseSteps

SpecDouble == InitDouble /\ [][NextDouble]_vars

(***************************************************************************)
(* Properties.                                                             *)
(***************************************************************************)
IsBijection(p, n) ==
    /\ Len(p) = n
    /\ \A i \in 1 .. n : p[i] \in 0 .. (n - 1)
    /\ \A i, j \in 1 .. n : p[i] = p[j] => i = j

\* q undoes p: q[p[i]] = i and p[q[j]] = j for every index.
IsInverseOf(q, p) ==
    /\ Len(q) = Len(p)
    /\ \A i \in 0 .. (Len(p) - 1) : At(q, At(p, i)) = i
    /\ \A j \in 0 .. (Len(p) - 1) : At(p, At(q, j)) = j

\* The rules of claim C1: the stateless rules, FixedPermute with a bijection
\* of each slot, TimeVaryingPermute in the forward orientation, and the
\* composites of these.
RECURSIVE InRoundTripClass(_)
InRoundTripClass(r) ==
    CASE r.kind \in {"ProbeAndSwap", "CondSwap"} -> TRUE
      [] r.kind = "Permute" ->
            /\ IsBijection(r.battery, BatteryLen)
            /\ IsBijection(r.hot_bath, HotLen)
            /\ IsBijection(r.cold_bath, ColdLen)
      [] r.kind = "WeirdPermute" -> ~r.inverted
      [] r.kind = "Vec" -> \A i \in 1 .. Len(r.rules) : InRoundTripClass(r.rules[i])
      [] OTHER -> FALSE

InverseTaken == inv # NoRule

\* C1: for a rule of the class above, step, t += 1, the inverse's step and
\* t -= 1 leave the world equal to the original in t and in every cell.
C1_RoundTrip ==
    (pc = "done_inc" /\ InRoundTripClass(rule)) => world = orig

\* A nested composite ending in a time-varying permutation went round, and
\* its step had changed the world.
C1_Witness ==
    /\ pc = "done_inc"
    /\ rule.kind = "Vec"
    /\ Len(rule.rules) = 2
    /\ rule.rules[1].kind = "Vec"
    /\ rule.rules[2].kind = "WeirdPermute"
    /\ Step(rule, orig) # orig
    /\ Step(rule.rules[1], orig) # orig
    /\ world = orig

\* C2: once the mirror world has been driven k times with the inverse
\* composite (its tick moved down), driving it with the forward composite
\* (its tick moved up) brings it, at every tick, to the state the mirror
\* world had at that tick, and at t = 0 to the initial world exactly.
C2_MirrorTrajectory ==
    pc = "back" =>
        /\ revworld.t \in (1 - Len(trail)) .. 0
        /\ revworld = trail[1 - revworld.t]
        /\ revworld.t = 0 => revworld = orig

\* The mirror world went MaxSteps ticks down through changing states and is
\* back at its initial state.
C2_Witness ==
    /\ pc = "back"
    /\ Len(trail) = MaxSteps + 1
    /\ revworld.t = 0
    /\ revworld = orig
    /\ trail[2].hot_bath # orig.hot_bath
    /\ trail[2].battery # orig.battery
    /\ trail[3].hot_bath # trail[2].hot_bath

\* C3: whatever rules stepped the world, in whatever order and at whatever
\* ticks, the cells that are true, summed over battery, hot_bath and
\* cold_bath, number as many as in the world as constructed.
C3_Conservation ==
    TrueCount(world) = constructed.true_count

\* A step acted at a tick other than 0 on a world with cells of both values,
\* some true cell being in the battery.
C3_Witness ==
    /\ pc = "stepped"
    /\ world.t = 1
    /\ constructed.true_count = 3
    /\ sumbools(world.battery) = 2
    /\ TrueCount(world) = 3

\* C4: permute with a permutation p, generated from any seed or any
\* bijection of 0 .. n-1, and then permute with invert_permutation(p)
\* return the vector exactly.
C4_PermutationRoundTrip ==
    pc = "restored" => xs = orig

\* A vector of three different values went through a generated permutation
\* that is not its own inverse, and is restored.
C4_Witness ==
    /\ pc = "restored"
    /\ xs = <<0, 1, 2>>
    /\ permutation = generate_random_permutation(3, 1)
    /\ invert_permutation(permutation) # permutation
    /\ xs = orig

\* C5: the rule inverse() returns for a composite [R1, ..., Rk] has k
\* elements, and its step produces the world that the step of
\* [Rk.inverse(), ..., R1.inverse()] produces from an identical world.
C5_CompositeReversal ==
    pc = "inverse_stepped" =>
        /\ inv.kind = "Vec"
        /\ Len(inv.rules) = Len(rule.rules)
        /\ world = revworld

\* A composite of four elements, composites among them, was inverted; the
\* step of its inverse changed the world, and the elements' inverses in the
\* original order would have produced another world.
C5_Witness ==
    /\ pc = "inverse_stepped"
    /\ Len(rule.rules) = 4
    /\ rule.rules[1].kind = "Vec"
    /\ rule.rules[4].kind = "WeirdPermute"
    /\ world # orig
    /\ world = revworld
    /\ Step(Vec([i \in 1 .. 4 |-> Inverse(rule.rules[i])]), orig) # world

Readout(w) ==
    <<At(w.hot_bath, 0), At(w.hot_bath, 1), At(w.cold_bath, 0), At(w.battery, 0)>>

PatternA == <<TRUE, TRUE, FALSE, FALSE>>
PatternB == <<FALSE, FALSE, TRUE, TRUE>>

\* w with the four observed cells set to ro.
WithReadout(w, ro) ==
    [w EXCEPT !.hot_bath = [@ EXCEPT ![1] = ro[1], ![2] = ro[2]],
              !.cold_bath = [@ EXCEPT ![1] = ro[3]],
              !.battery = [@ EXCEPT ![1] = ro[4]]]

\* Every cell but hot_bath[0], hot_bath[1], cold_bath[0] and battery[0], and
\* the tick, agree in v and w.
SameOutsideReadout(v, w) ==
    /\ v.t = w.t
    /\ DOMAIN v.battery = DOMAIN w.battery
    /\ DOMAIN v.hot_bath = DOMAIN w.hot_bath
    /\ DOMAIN v.cold_bath = DOMAIN w.cold_bath
    /\ \A i \in DOMAIN w.battery : i > 1 => v.battery[i] = w.battery[i]
    /\ \A i \in DOMAIN w.hot_bath : i > 2 => v.hot_bath[i] = w.hot_bath[i]
    /\ \A i \in DOMAIN w.cold_bath : i > 1 => v.cold_bath[i] = w.cold_bath[i]

\* C6: CondSwap.step maps pattern A to pattern B and B to A, changes the
\* world for exactly these two of the 16 readouts, leaves it unchanged for
\* the other 14, and never changes a cell outside the four observed ones.
C6_CondSwapTable ==
    (rule = CondSwap /\ pc = "stepped") =>
        /\ Readout(orig) = PatternA => Readout(world) = PatternB
        /\ Readout(orig) = PatternB => Readout(world) = PatternA
        /\ Readout(orig) \notin {PatternA, PatternB} => world = orig
        /\ Readout(orig) \in {PatternA, PatternB} => world # orig
        /\ SameOutsideReadout(world, orig)
        /\ { ro \in [1 .. 4 -> BOOLEAN] :
               Step(rule, WithReadout(orig, ro)) # WithReadout(orig, ro) }
             = {PatternA, PatternB}

\* CondSwap stepped a world in pattern B into pattern A.
C6_Witness ==
    /\ rule = CondSwap
    /\ pc = "stepped"
    /\ Readout(orig) = PatternB
    /\ Readout(world) = PatternA

\* C7 as stated: the round trip of C1 for TimeVaryingPermute with
\* inverted = true, the tick moved up between the two steps.
C7_RoundTripInvertedUp ==
    (pc = "done_inc" /\ rule.kind = "WeirdPermute" /\ rule.inverted) => world = orig

\* C7 amended: for TimeVaryingPermute with inverted = true, step, t -= 1, the
\* inverse's step (inverted = false) and t += 1 leave the world equal to the
\* original.
C7_RoundTripInvertedDown ==
    (pc = "done_dec" /\ rule.kind = "WeirdPermute" /\ rule.inverted) => world = orig

\* An inverted rule went round with the tick moved down, and its step had
\* changed the world.
C7_Witness ==
    /\ pc = "done_dec"
    /\ rule.kind = "WeirdPermute"
    /\ rule.inverted
    /\ Step(rule, orig) # orig
    /\ world = orig

\* The rule r, inverted, stepped the slot `before` into `after` at tick t:
\* what it applied undoes generate(len, seed + (t - 1)), which is what the
\* forward rule applies at tick t - 1.
AppliedUndoesForward(r, t, before, after) ==
    LET n == Len(before)
        forward == generate_random_permutation(n, WrappingAddSigned(r.seed, t - 1))
        applied == WeirdPerm(r, t, n)
    IN  /\ IsInverseOf(applied, forward)
        /\ forward = WeirdPerm(WeirdPermute(r.seed, FALSE), t - 1, n)
        /\ after = permute(applied, before)

\* C8: the inverse of TimeVaryingPermute keeps the seed and flips the flag,
\* and a rule with inverted = true stepping a world at tick t' applies to
\* each slot the algebraic inverse of generate(len, seed + (t' - 1)).
C8_InverseTimeIndex ==
    rule.kind = "WeirdPermute" =>
        /\ InverseTaken =>
              /\ inv.kind = "WeirdPermute"
              /\ inv.seed = rule.seed
              /\ inv.inverted = ~rule.inverted
        /\ (pc = "stepped" /\ rule.inverted) =>
              /\ AppliedUndoesForward(rule, orig.t, orig.battery, world.battery)
              /\ AppliedUndoesForward(rule, orig.t, orig.hot_bath, world.hot_bath)
              /\ AppliedUndoesForward(rule, orig.t, orig.cold_bath, world.cold_bath)
        /\ (pc \in {"inc_inv", "dec_inv"} /\ ~rule.inverted) =>
              LET before == Step(rule, orig)
              IN  /\ AppliedUndoesForward(inv, world.t, before.battery, world.battery)
                  /\ AppliedUndoesForward(inv, world.t, before.hot_bath, world.hot_bath)
                  /\ AppliedUndoesForward(inv, world.t, before.cold_bath, world.cold_bath)

\* An inverted rule stepped, applying to hot_bath a permutation that differs
\* from the generated one it inverts, and moving cells.
C8_Witness ==
    /\ rule.kind = "WeirdPermute"
    /\ rule.inverted
    /\ pc = "stepped"
    /\ world.hot_bath # orig.hot_bath
    /\ WeirdPerm(rule, orig.t, HotLen)
         # generate_random_permutation(HotLen, WrappingAddSigned(rule.seed, orig.t - 1))

\* C9: ProbeAndSwap.step exchanges hot_bath[1] with battery[1] when
\* hot_bath[0] is true and changes nothing otherwise; every other cell and
\* the tick are unchanged; the inverse is ProbeAndSwap; two steps restore the
\* world.
C9_ProbeAndSwap ==
    rule = ProbeAndSwap =>
        /\ pc = "stepped" =>
              /\ world.t = orig.t
              /\ world.cold_bath = orig.cold_bath
              /\ DOMAIN world.battery = DOMAIN orig.battery
              /\ DOMAIN world.hot_bath = DOMAIN orig.hot_bath
              /\ \A i \in DOMAIN orig.battery : i # 2 => world.battery[i] = orig.battery[i]
              /\ \A i \in DOMAIN orig.hot_bath : i # 2 => world.hot_bath[i] = orig.hot_bath[i]
              /\ IF At(orig.hot_bath, 0)
                 THEN /\ At(world.hot_bath, 1) = At(orig.battery, 1)
                      /\ At(world.battery, 1) = At(orig.hot_bath, 1)
                 ELSE world = orig
        /\ pc = "twice" => world = orig
        /\ InverseTaken => inv = ProbeAndSwap

\* ProbeAndSwap stepped twice on a world whose first step exchanged two
\* different cells.
C9_Witness ==
    /\ rule = ProbeAndSwap
    /\ pc = "twice"
    /\ At(orig.hot_bath, 0)
    /\ At(orig.hot_bath, 1) # At(orig.battery, 1)
    /\ world = orig

\* C10: the inverse of a FixedPermute of bijections is a FixedPermute whose
\* sequence q for each slot satisfies q[p[i]] = i and p[q[j]] = j, and the
\* original rule still holds its bijections.
C10_PermuteInverse ==
    (rule.kind = "Permute" /\ InverseTaken) =>
        /\ inv.kind = "Permute"
        /\ IsInverseOf(inv.battery, rule.battery)
        /\ IsInverseOf(inv.hot_bath, rule.hot_bath)
        /\ IsInverseOf(inv.cold_bath, rule.cold_bath)
        /\ IsBijection(rule.battery, BatteryLen)
        /\ IsBijection(rule.hot_bath, HotLen)
        /\ IsBijection(rule.cold_bath, ColdLen)

\* The inverse of a FixedPermute was taken whose hot_bath permutation is not
\* its own inverse.
C10_Witness ==
    /\ rule.kind = "Permute"
    /\ InverseTaken
    /\ inv.hot_bath # rule.hot_bath
    /\ inv.battery # <<0, 1>>

\* C11: whatever rules stepped the world, forward or inverse, alone or inside
\* composites, battery, hot_bath and cold_bath have the lengths they had when
\* the world was constructed.
C11_SlotLengths ==
    /\ Len(world.battery) = constructed.lens[1]
    /\ Len(world.hot_bath) = constructed.lens[2]
    /\ Len(world.cold_bath) = constructed.lens[3]

\* A step rearranged the cells of a world away from tick 0, every slot
\* having the length it was constructed with.
C11_Witness ==
    /\ pc = "stepped"
    /\ world.t = 0 - MaxTick
    /\ constructed.lens = <<BatteryLen, HotLen, ColdLen>>
    /\ Line(world) = constructed
    /\ world.hot_bath[1] /\ ~world.hot_bath[2]
    /\ Step(WeirdPermute(1, TRUE), world).hot_bath # world.hot_bath

HasEmptySlot(w) ==
    Len(w.battery) = 0 \/ Len(w.hot_bath) = 0 \/ Len(w.cold_bath) = 0

\* The world has fewer positions than the rule reads.
RECURSIVE LacksPositions(_, _)
LacksPositions(r, w) ==
    CASE r.kind = "ProbeAndSwap" -> Len(w.hot_bath) < 2 \/ Len(w.battery) < 2
      [] r.kind = "CondSwap" ->
            Len(w.hot_bath) < 2 \/ Len(w.cold_bath) < 1 \/ Len(w.battery) < 1
      [] r.kind = "Vec" -> \E i \in DOMAIN r.rules : LacksPositions(r.rules[i], w)
      [] OTHER -> FALSE

StepStarted == pc \in {"stepped", "panicked"}

\* C13: a world with a slot of length zero, or with fewer positions than the
\* rule reads, is refused at construction: no step ever runs on it.
C13_ConfigError ==
    StepStarted => ~(HasEmptySlot(orig) \/ LacksPositions(rule, orig))

LengthMismatch(r, w) ==
    \/ Len(r.battery) # Len(w.battery)
    \/ Len(r.hot_bath) # Len(w.hot_bath)
    \/ Len(r.cold_bath) # Len(w.cold_bath)

\* C14: a step of Permute on a world one of whose slots has another length
\* than the sequence stored for it, shorter or longer, aborts; it does not
\* complete.
C14_LengthMismatchAborts ==
    (StepStarted /\ rule.kind = "Permute" /\ LengthMismatch(rule, orig))
        => pc = "panicked"

\* The world after the first k elements of rules have stepped w one after
\* the other, each on the world its predecessor left.
RECURSIVE AppliedInTurn(_, _, _)
AppliedInTurn(rules, w, k) ==
    IF k = 0 THEN w
    ELSE Step(rules[k], AppliedInTurn(rules, w, k - 1))

\* C15: the step of a composite [R1, ..., Rk] leaves the world that R1.step,
\* then R2.step on the result, ..., then Rk.step leave, every element seeing
\* the tick the composite was stepped at; the empty composite leaves the
\* world as it was.
C15_CompositeStepOrder ==
    (pc = "stepped" /\ rule.kind = "Vec") =>
        /\ world = AppliedInTurn(rule.rules, orig, Len(rule.rules))
        /\ \A k \in 0 .. Len(rule.rules) : AppliedInTurn(rule.rules, orig, k).t = orig.t
        /\ rule.rules = <<>> => world = orig

\* A composite of two elements stepped a world away from tick 0: each
\* element changed the world it was given, and the two in the other order
\* would have left another world.
C15_Witness ==
    /\ pc = "stepped"
    /\ rule.kind = "Vec"
    /\ Len(rule.rules) = 2
    /\ orig.t = MaxTick
    /\ world.t = MaxTick
    /\ Step(rule.rules[1], orig) # orig
    /\ world # Step(rule.rules[1], orig)
    /\ world # Step(rule.rules[1], Step(rule.rules[2], orig))

\* Every cell of after holds what before held at the position p names for it.
ReadsOld(p, before, after) ==
    /\ Len(after) = Len(before)
    /\ \A i \in 0 .. (Len(before) - 1) : At(after, i) = At(before, At(p, i))

\* C16: after permute(p, xs), p any sequence of Len(xs) indices below
\* Len(xs), every xs[i] is what xs held at p[i] before the call, whatever
\* was overwritten earlier in the loop; the step of Permute does this to each
\* slot with the sequence stored for it.
C16_PermuteSnapshot ==
    /\ pc = "permuted" => ReadsOld(permutation, orig, xs)
    /\ pc = "stepped" =>
        /\ ReadsOld(rule.battery, orig.battery, world.battery)
        /\ ReadsOld(rule.hot_bath, orig.hot_bath, world.hot_bath)
        /\ ReadsOld(rule.cold_bath, orig.cold_bath, world.cold_bath)
        /\ world.t = orig.t

\* permute ran with a sequence that is not a bijection and names position 0
\* after position 0 was overwritten.
C16_Witness ==
    /\ pc = "permuted"
    /\ orig = <<0, 1, 2>>
    /\ permutation = <<1, 0, 0>>
    /\ xs = <<1, 0, 0>>

\* The generator seed the claim gives for rule r at tick t.
ClaimedSeed(r, t) == (r.seed + t - (IF r.inverted THEN 1 ELSE 0)) % SeedModulus

\* The world a step of r leaves of w when its permutations are generated
\* from seed s.
SteppedFromSeed(r, w, s) ==
    LET p(n) == IF r.inverted
                THEN invert_permutation(generate_random_permutation(n, s))
                ELSE generate_random_permutation(n, s)
    IN  [w EXCEPT !.battery = permute(p(Len(w.battery)), @),
                  !.hot_bath = permute(p(Len(w.hot_bath)), @),
                  !.cold_bath = permute(p(Len(w.cold_bath)), @)]

\* C17: a step of WeirdPermute at tick t passes the generator the seed
\* (seed + t) mod 2^64, or (seed + t - 1) mod 2^64 when inverted, for every
\* seed and every tick of the signed type, negative ones included; the
\* forward rule at t and the inverted rule at t + 1 derive the same seed.
C17_WrappingSeed ==
    StepStarted =>
        /\ pc = "stepped"
        /\ world = SteppedFromSeed(rule, orig, ClaimedSeed(rule, orig.t))
        /\ orig.t < I64Max =>
              WrappingAddSigned(rule.seed, WeirdTick(WeirdPermute(rule.seed, FALSE), orig.t))
                = WrappingAddSigned(rule.seed, WeirdTick(WeirdPermute(rule.seed, TRUE), orig.t + 1))

\* The world after k iterations of rules.step(&mut world); world.t += 1
\* from w.
RECURSIVE RunForward(_, _, _)
RunForward(r, w, k) ==
    IF k = 0 THEN w
    ELSE [Step(r, RunForward(r, w, k - 1)) EXCEPT !.t = @ + 1]

\* C18: after k iterations forward from a world at tick 0, every iteration
\* of inv_rules.step, t -= 1 leaves the world in the state the forward run
\* had at the tick reached, and the k-th leaves it at tick 0 equal to the
\* initial world.
C18_ForwardThenBackward ==
    pc = "back" =>
        /\ world.t \in 0 .. (Len(trail) - 1)
        /\ world = RunForward(rule, orig, world.t)
        /\ world.t = 0 => world = orig

\* MaxSteps iterations forward through states that differ from one another,
\* then as many backward, ended at the initial world.
C18_Witness ==
    /\ pc = "back"
    /\ Len(trail) = MaxSteps + 1
    /\ world.t = 0
    /\ world = orig
    /\ RunForward(rule, orig, 1).battery # orig.battery
    /\ RunForward(rule, orig, 2).hot_bath # RunForward(rule, orig, 1).hot_bath
    /\ RunForward(rule, orig, MaxSteps).cold_bath # orig.cold_bath

\* C19: for every rule R, of any variant, WeirdPermute in either
\* orientation and composites included, the step of R.inverse().inverse()
\* leaves of any world at any tick the world the step of R leaves.
C19_DoubleInverse ==
    pc = "double_stepped" => world = revworld

\* The inverse of the inverse of a composite stepped a world away from
\* tick 0 and changed it; the composite's inverse is another rule and would
\* have left another world.
C19_Witness ==
    /\ pc = "double_stepped"
    /\ rule.kind = "Vec"
    /\ orig.t = MaxTick
    /\ world # orig
    /\ world = revworld
    /\ Inverse(rule) # rule
    /\ Step(Inverse(rule), orig) # world

\* The variants whose steps read no tick.
TickFrameRules ==
    { ProbeAndSwap, CondSwap,
      Permute(NthPermutation(BatteryLen, 1), NthPermutation(HotLen, 3),
              NthPermutation(ColdLen, 1)) }

\* C20: no step of a rule changes a world's tick; every iteration of main's
\* loop moves the forward world's tick up by exactly one and the mirror
\* world's down by exactly one; each world is where its own rule's steps
\* alone take it, whatever was done to the other; after k iterations the
\* forward world is at tick k and the mirror world at tick -k.
C20_TickFrame ==
    /\ Step(rule, world).t = world.t
    /\ Step(inv, revworld).t = revworld.t
    /\ \A r \in TickFrameRules : Step(r, world).t = world.t
    /\ pc = "loop" =>
        LET k == Len(trail) - 1
        IN  /\ world.t = k
            /\ revworld.t = 0 - k
            /\ world = RunForward(rule, orig, k)
            /\ revworld = trail[k + 1]
            /\ trail[1] = orig
            /\ \A i \in 1 .. k :
                  trail[i + 1] = [Step(inv, trail[i]) EXCEPT !.t = trail[i].t - 1]

\* MaxSteps iterations were run, each changing both worlds' cells.
C20_Witness ==
    /\ pc = "loop"
    /\ Len(trail) = MaxSteps + 1
    /\ world.t = MaxSteps
    /\ revworld.t = 0 - MaxSteps
    /\ world.hot_bath # orig.hot_bath
    /\ revworld.hot_bath # orig.hot_bath
    /\ world.hot_bath # revworld.hot_bath
=============================================================================
